---- MODULE Spec2Model ----
(***************************************************************************)
(* Model of data-chatter's query validation and tool-execution pipeline:   *)
(* the Database Query Tool (Validate / Execute), the Tool Registry         *)
(* (ExecuteTool / ExecuteTools) and the HTTP handlers that reach them.     *)
(*                                                                         *)
(* A Go string is a sequence of one-character strings, so that trimming,   *)
(* upper-casing, prefix tests and substring scans are computed.  A Go      *)
(* map[string]interface{} is a function from keys to tagged JSON values    *)
(* [t, v]; reading a nil map behaves as reading the empty map, so both are *)
(* the empty function.                                                     *)
(***************************************************************************)
EXTENDS Integers, Sequences, FiniteSets, TLC

(* ------------------------------ bounds -------------------------------- *)

\* a query of the Validate action is a concatenation of at most MaxFrags fragments
MaxFrags == 2

\* a batch of ExecuteTools holds at most MaxCalls calls
MaxCalls == 2

(* --------------------------- Go strings -------------------------------- *)

Lower == <<"a","b","c","d","e","f","g","h","i","j","k","l","m",
           "n","o","p","q","r","s","t","u","v","w","x","y","z">>

Upper == <<"A","B","C","D","E","F","G","H","I","J","K","L","M",
           "N","O","P","Q","R","S","T","U","V","W","X","Y","Z">>

\* the white space strings.TrimSpace removes (within the alphabet used here)
WhiteSpace == {" ", "\t", "\n", "\r"}

ToUpperChar(c) ==
    IF \E i \in 1..Len(Lower) : Lower[i] = c
    THEN Upper[CHOOSE i \in 1..Len(Lower) : Lower[i] = c]
    ELSE c

ToUpper(s) == [i \in 1..Len(s) |-> ToUpperChar(s[i])]

\* strings.TrimSpace: drop leading and trailing white space
TrimSpace(s) ==
    LET keep  == {i \in 1..Len(s) : s[i] \notin WhiteSpace}
        first == CHOOSE i \in keep : \A j \in keep : i <= j
        last  == CHOOSE i \in keep : \A j \in keep : j <= i
    IN  IF keep = {} THEN <<>> ELSE SubSeq(s, first, last)

HasPrefix(s, p) == Len(s) >= Len(p) /\ SubSeq(s, 1, Len(p)) = p

Contains(s, sub) ==
    \E i \in 0..(Len(s) - Len(sub)) : SubSeq(s, i + 1, i + Len(sub)) = sub

(* ---------------------------- JSON values ------------------------------ *)

Str(s) == [t |-> "string", v |-> s]
Num(s) == [t |-> "number", v |-> s]

\* v, ok := input[key].(string)
IsString(input, key) == key \in DOMAIN input /\ input[key].t = "string"

EmptyInput == [k \in {} |-> Str(<<>>)]

(* ------------------------------ errors --------------------------------- *)

\* a Go error value: the format string and its argument; NoError is nil
Error(msg, arg) == [msg |-> msg, arg |-> arg]
NoError == Error("", "")

(* --------------------- DatabaseQueryTool.Validate ---------------------- *)

SELECT == <<"S","E","L","E","C","T">>

dangerousKeywords ==
    << <<"D","R","O","P">>,
       <<"D","E","L","E","T","E">>,
       <<"U","P","D","A","T","E">>,
       <<"I","N","S","E","R","T">>,
       <<"A","L","T","E","R">>,
       <<"C","R","E","A","T","E">>,
       <<"T","R","U","N","C","A","T","E">> >>

\* the keywords as the error message prints them
keywordName == <<"DROP", "DELETE", "UPDATE", "INSERT", "ALTER", "CREATE", "TRUNCATE">>

\* Validate with the prefix test made on the trimmed query as typed
Validate_CaseSensitivePrefix(input) ==
    IF ~IsString(input, "query") THEN Error("query must be a string", "")
    ELSE LET query      == input["query"].v
             queryUpper == ToUpper(TrimSpace(query))
             hits       == {k \in 1..Len(dangerousKeywords) :
                               Contains(queryUpper, dangerousKeywords[k])}
             firstHit   == CHOOSE k \in hits : \A j \in hits : k <= j
         IN  IF query = <<>> THEN Error("query cannot be empty", "")
             ELSE IF ~HasPrefix(TrimSpace(query), SELECT)
                  THEN Error("only SELECT queries are allowed", "")
             ELSE IF hits # {}
                  THEN Error("query contains forbidden keyword: %s",
                             keywordName[firstHit])
             ELSE NoError

\* Validate with the keyword scan made on the trimmed query as typed
Validate_CaseSensitiveKeywords(input) ==
    IF ~IsString(input, "query") THEN Error("query must be a string", "")
    ELSE LET query      == input["query"].v
             queryUpper == ToUpper(TrimSpace(query))
             hits       == {k \in 1..Len(dangerousKeywords) :
                               Contains(TrimSpace(query), dangerousKeywords[k])}
             firstHit   == CHOOSE k \in hits : \A j \in hits : k <= j
         IN  IF query = <<>> THEN Error("query cannot be empty", "")
             ELSE IF ~HasPrefix(queryUpper, SELECT)
                  THEN Error("only SELECT queries are allowed", "")
             ELSE IF hits # {}
                  THEN Error("query contains forbidden keyword: %s",
                             keywordName[firstHit])
             ELSE NoError

\* Validate without the trimming of the query
Validate_NoTrim(input) ==
    IF ~IsString(input, "query") THEN Error("query must be a string", "")
    ELSE LET query      == input["query"].v
             queryUpper == ToUpper(query)
             hits       == {k \in 1..Len(dangerousKeywords) :
                               Contains(queryUpper, dangerousKeywords[k])}
             firstHit   == CHOOSE k \in hits : \A j \in hits : k <= j
         IN  IF query = <<>> THEN Error("query cannot be empty", "")
             ELSE IF ~HasPrefix(queryUpper, SELECT)
                  THEN Error("only SELECT queries are allowed", "")
             ELSE IF hits # {}
                  THEN Error("query contains forbidden keyword: %s",
                             keywordName[firstHit])
             ELSE NoError

Validate(input) ==
    IF ~IsString(input, "query") THEN Error("query must be a string", "")
    ELSE LET query      == input["query"].v
             queryUpper == ToUpper(TrimSpace(query))
             hits       == {k \in 1..Len(dangerousKeywords) :
                               Contains(queryUpper, dangerousKeywords[k])}
             firstHit   == CHOOSE k \in hits : \A j \in hits : k <= j
         IN  IF query = <<>> THEN Error("query cannot be empty", "")
             ELSE IF ~HasPrefix(queryUpper, SELECT)
                  THEN Error("only SELECT queries are allowed", "")
             ELSE IF hits # {}
                  THEN Error("query contains forbidden keyword: %s",
                             keywordName[firstHit])
             ELSE NoError

(* ------------------------- database driver ----------------------------- *)

\* a column value as the driver hands it to Scan
Null       == [ty |-> "nil",    val |-> ""]
Bytes(b)   == [ty |-> "[]byte", val |-> b]
Time(t)    == [ty |-> "time",   val |-> t]
Int64(n)   == [ty |-> "int64",  val |-> n]
String(s)  == [ty |-> "string", val |-> s]
Float64(f) == [ty |-> "float64", val |-> f]

\* time.Time.Format(time.RFC3339) of the instants used here
RFC3339(t) ==
    IF t = "t0" THEN "1970-01-01T00:00:00Z"
    ELSE IF t = "t1" THEN "2024-01-02T03:04:05Z"
    ELSE "0001-01-01T00:00:00Z"

\* What conn.DB.Query and the cursor it returns do for one call:
\* queryErr: Query fails; columnsErr: rows.Columns fails; rows: the rows the
\* cursor yields; scanErrAt = k > 0: Scan of the k-th row fails;
\* iterErr: rows.Err is non-nil after the loop.
Cursor(qe, ce, cols, rows, se, ie) ==
    [queryErr |-> qe, columnsErr |-> ce, columns |-> cols, rows |-> rows,
     scanErrAt |-> se, iterErr |-> ie]

DriverError(stage) == Error(stage, "")

(* ----------------------------- ToolResult ------------------------------ *)

\* nil []map[string]interface{} against a slice that append has made
NilSlice    == [isNil |-> TRUE,  rows |-> <<>>]
Slice(rows) == [isNil |-> FALSE, rows |-> rows]

Document(q, cols, n, data) ==
    [query |-> q, columns |-> cols, row_count |-> n, data |-> data]

NoDocument == Document(<<>>, <<>>, 0, NilSlice)

\* the text of a content item: fmt.Sprintf(format, err), or the JSON
\* encoding of a document (format "json")
Sprintf(format, err) == [format |-> format, err |-> err, doc |-> NoDocument]

\* string(nil): the empty text
EmptyText == Sprintf("", NoError)

\* encoding/json has no encoding for the floats NaN, +Inf and -Inf
Encodable(val) == ~(val.ty = "float64" /\ val.val \in {"NaN", "+Inf", "-Inf"})

\* jsonData, _ := json.MarshalIndent(response, "", "  "); string(jsonData):
\* the error is dropped, and jsonData is nil when a value has no encoding
MarshalIndent(doc) ==
    IF \A k \in 1..Len(doc.data.rows) :
          \A c \in DOMAIN doc.data.rows[k] : Encodable(doc.data.rows[k][c])
    THEN [format |-> "json", err |-> NoError, doc |-> doc]
    ELSE EmptyText

ToolContent(text) == [Type |-> "text", Text |-> text]

ToolError(type, err) == [Type |-> type, Message |-> err]
NoToolError == ToolError("", NoError)

ToolResult(id, content, isError, error) ==
    [ID |-> id, Content |-> content, IsError |-> isError, Error |-> error]

NoResult == ToolResult(<<>>, <<>>, FALSE, NoToolError)

\* what a call did: "result" (a ToolResult and a nil error), "error" (a nil
\* result and a Go error) or "panic" (the goroutine unwinds); trace lists the
\* executor calls and database queries made on the way, in order
Outcome(kind, result, err, trace) ==
    [kind |-> kind, result |-> result, err |-> err, trace |-> trace]

Event(e, input, sql, err) == [e |-> e, in |-> input, sql |-> sql, err |-> err]

(* ---------------------- DatabaseQueryTool.Execute ---------------------- *)

\* the error result without its is_error flag
QueryError_NotFlagged(format, err) ==
    ToolResult(<<>>, <<ToolContent(Sprintf(format, err))>>, FALSE,
               ToolError("query_error", err))

QueryError(format, err) ==
    ToolResult(<<>>, <<ToolContent(Sprintf(format, err))>>, TRUE,
               ToolError("query_error", err))

\* the conversion without its []byte case
ConvertValue_BytesAsIs(val) ==
    IF val.ty = "nil" THEN Null
    ELSE IF val.ty = "time" THEN String(RFC3339(val.val))
    ELSE val

\* the per-value conversion of the row loop
ConvertValue(val) ==
    IF val.ty = "nil" THEN Null
    ELSE IF val.ty = "[]byte" THEN String(val.val)
    ELSE IF val.ty = "time" THEN String(RFC3339(val.val))
    ELSE val

\* row := make(map); for i, col := range columns { row[col] = ... }
RowMap(columns, values) ==
    [c \in {columns[i] : i \in 1..Len(columns)} |->
        LET idx  == {i \in 1..Len(columns) : columns[i] = c}
            last == CHOOSE i \in idx : \A j \in idx : j <= i
        IN  ConvertValue(values[last])]

\* the rows put at the front of results instead of appended
Results_Prepended(columns, rows, scanned) ==
    [k \in 1..scanned |-> RowMap(columns, rows[scanned + 1 - k])]

\* results after the row loop has appended the first scanned rows in turn
Results(columns, rows, scanned) ==
    [k \in 1..scanned |-> RowMap(columns, rows[k])]

\* the query with a LIMIT clause made of the input's limit
ExecutedQuery_WithLimit(input) ==
    IF "limit" \in DOMAIN input
    THEN input["query"].v \o <<" ","L","I","M","I","T"," ">> \o input["limit"].v
    ELSE input["query"].v

\* query := input["query"].(string), the string handed to conn.DB.Query
ExecutedQuery(input) == input["query"].v

Execute(input, cursor) ==
    IF ~IsString(input, "query")
    THEN Outcome("panic", NoResult, NoError,
                 <<Event("Execute", input, <<>>, NoError)>>)
    ELSE
    LET query   == ExecutedQuery(input)
        trace   == <<Event("Execute", input, <<>>, NoError),
                     Event("Query", EmptyInput, query, NoError)>>
        columns == cursor.columns
        scanned == IF cursor.scanErrAt > 0 /\ cursor.scanErrAt <= Len(cursor.rows)
                   THEN cursor.scanErrAt - 1 ELSE Len(cursor.rows)
        rowMaps == Results(columns, cursor.rows, scanned)
        results == IF scanned = 0 THEN NilSlice ELSE Slice(rowMaps)
        response == Document(query, columns, scanned, results)
    IN  IF cursor.queryErr
        THEN Outcome("result",
                     QueryError("Query execution failed: %v", DriverError("query")),
                     NoError, trace)
        ELSE IF cursor.columnsErr
        THEN Outcome("result",
                     QueryError("Failed to get column names: %v", DriverError("columns")),
                     NoError, trace)
        ELSE IF scanned < Len(cursor.rows)
        THEN Outcome("result",
                     QueryError("Failed to scan row: %v", DriverError("scan")),
                     NoError, trace)
        ELSE IF cursor.iterErr
        THEN Outcome("result",
                     QueryError("Error iterating rows: %v", DriverError("iterate")),
                     NoError, trace)
        ELSE Outcome("result",
                     ToolResult(<<>>, <<ToolContent(MarshalIndent(response))>>,
                                FALSE, NoToolError),
                     NoError, trace)

(* --------------------------- ToolRegistry ------------------------------ *)

ToolDefinition(name, description) == [Name |-> name, Description |-> description]

\* DatabaseQueryTool.GetDefinition
GetDefinition ==
    ToolDefinition("database_query",
                   "Execute a read-only SQL SELECT query on the database")

ToolRegistryEntry(def, executor) == [Definition |-> def, Executor |-> executor]

\* DatabaseSmartQueryTool.GetDefinition
SmartGetDefinition ==
    ToolDefinition("database_smart_query",
                   "Intelligently query the database. First discovers schema, then executes the appropriate query to get the requested data.")

\* executor.GetDefinition() of the executors of the tools package
DefinitionOf(executor) ==
    IF executor = "DatabaseSmartQueryTool" THEN SmartGetDefinition ELSE GetDefinition

\* NewToolRegistry
NewToolRegistry == [n \in {} |-> ToolRegistryEntry(GetDefinition, "")]

\* a registration that starts the map afresh
RegisterTool_Replace(reg, name, executor) ==
    [n \in {name} |-> ToolRegistryEntry(DefinitionOf(executor), executor)]

\* a registration that keeps the definition already stored under the name
RegisterTool_KeepDefinition(reg, name, executor) ==
    [n \in DOMAIN reg \cup {name} |->
        IF n = name
        THEN ToolRegistryEntry(IF name \in DOMAIN reg THEN reg[name].Definition
                                ELSE DefinitionOf(executor),
                               executor)
        ELSE reg[n]]

\* tr.tools[name] = ToolRegistryEntry{executor.GetDefinition(), executor}
RegisterTool(reg, name, executor) ==
    [n \in DOMAIN reg \cup {name} |->
        IF n = name THEN ToolRegistryEntry(DefinitionOf(executor), executor)
        ELSE reg[n]]

\* GetTool: the entry under name and whether there is one
GetTool(reg, name) ==
    IF name \in DOMAIN reg THEN [entry |-> reg[name], exists |-> TRUE]
    ELSE [entry |-> ToolRegistryEntry(ToolDefinition("", ""), ""), exists |-> FALSE]

\* ListTools: the definitions of the entries, in any of the orders the range
\* over the map may take
ListTools(reg) ==
    {[i \in 1..Cardinality(DOMAIN reg) |-> reg[order[i]].Definition] :
        order \in {f \in [1..Cardinality(DOMAIN reg) -> DOMAIN reg] :
                      \A i, j \in DOMAIN f : f[i] = f[j] => i = j}}

\* the engine of an earlier revision, with the smart query tool registered too
NewToolEngine_WithSmartQuery ==
    RegisterTool(RegisterTool(NewToolRegistry, "database_query", "DatabaseQueryTool"),
                 "database_smart_query", "DatabaseSmartQueryTool")

\* NewToolEngine: a fresh registry with the query tool under "database_query"
NewToolEngine == RegisterTool(NewToolRegistry, "database_query", "DatabaseQueryTool")

ToolCall(id, name, input) == [ID |-> id, Type |-> "tool_use", Name |-> name, Input |-> input]

ToolNotFound(name) == Error("tool '%s' not found", name)

\* the validation_error result of ExecuteTool: its ID is input["id"].(string),
\* a type assertion that panics when input has no string under "id"
ValidationError(input, err, validate) ==
    IF IsString(input, "id")
    THEN Outcome("result",
                 ToolResult(input["id"].v,
                            <<ToolContent(Sprintf("Validation error: %v", err))>>,
                            TRUE, ToolError("validation_error", err)),
                 NoError, validate)
    ELSE Outcome("panic", NoResult, NoError, validate)

\* return entry.Executor.Execute(input), after the Validate recorded in validate
Delegate(validate, exec) ==
    Outcome(exec.kind, exec.result, exec.err, validate \o exec.trace)

\* ExecuteTool going on to Execute whatever Validate returned
Dispatch_NoGate(input, err, cursor) ==
    Delegate(<<Event("Validate", input, <<>>, err)>>, Execute(input, cursor))

\* ExecuteTool handing a validation failure back as a Go error
Dispatch_ValidationAsGoError(input, err, cursor) ==
    IF err # NoError
    THEN Outcome("error", NoResult, err, <<Event("Validate", input, <<>>, err)>>)
    ELSE Delegate(<<Event("Validate", input, <<>>, err)>>, Execute(input, cursor))

\* ExecuteTool once the entry is found and Validate has returned err
Dispatch(input, err, cursor) ==
    IF err # NoError
    THEN ValidationError(input, err, <<Event("Validate", input, <<>>, err)>>)
    ELSE Delegate(<<Event("Validate", input, <<>>, err)>>, Execute(input, cursor))

ExecuteTool(reg, name, input, cursor) ==
    IF name \notin DOMAIN reg
    THEN Outcome("error", NoResult, ToolNotFound(name), <<>>)
    ELSE Dispatch(input, Validate(input), cursor)

\* the result ExecuteTools stores for a call that returned a Go error
ExecutionError(id, err) ==
    ToolResult(id, <<ToolContent(Sprintf("Execution error: %v", err))>>, TRUE,
               ToolError("execution_error", err))

\* results[i] for a call that ended as out
Stored(toolCall, out) ==
    IF out.kind = "error" THEN ExecutionError(toolCall.ID, out.err) ELSE out.result

RECURSIVE ExecuteToolsFrom(_, _, _, _, _, _)
RECURSIVE ExecuteToolsStep(_, _, _, _, _, _, _)

\* the loop body of ExecuteTools once ExecuteTool has ended as out
ExecuteToolsStep(reg, toolCalls, cursors, i, results, trace, out) ==
    IF out.kind = "panic"
    THEN [kind |-> "panic", results |-> <<>>, trace |-> trace \o out.trace]
    ELSE ExecuteToolsFrom(reg, toolCalls, cursors, i + 1,
                          [results EXCEPT ![i] = Stored(toolCalls[i], out)],
                          trace \o out.trace)

\* for i, toolCall := range toolCalls { ... } from index i on
ExecuteToolsFrom(reg, toolCalls, cursors, i, results, trace) ==
    IF i > Len(toolCalls)
    THEN [kind |-> "results", results |-> results, trace |-> trace]
    ELSE ExecuteToolsStep(reg, toolCalls, cursors, i, results, trace,
                          ExecuteTool(reg, toolCalls[i].Name, toolCalls[i].Input,
                                      cursors[i]))

\* cursors[i] is what the database does for the query of toolCalls[i]
ExecuteTools(reg, toolCalls, cursors) ==
    ExecuteToolsFrom(reg, toolCalls, cursors, 1,
                     [i \in 1..Len(toolCalls) |-> NoResult], <<>>)

(* --------------------------- HTTP handlers ----------------------------- *)

\* a response body: plain text of http.Error, an APIResponse {message, error},
\* an encoded ToolResult, a ToolExecutionResponse {results}, a decoded query
\* document, or a MessageResponse {message, results, error} whose results are
\* the bodies in items; "none" when nothing was written
Body(kind, message, error, result, results, doc) ==
    [kind |-> kind, message |-> message, error |-> error, result |-> result,
     results |-> results, doc |-> doc, items |-> <<>>]

NoBody == Body("none", "", NoError, NoResult, <<>>, NoDocument)

TextBody(message) == Body("text", message, NoError, NoResult, <<>>, NoDocument)

APIResponse(message, error) ==
    Body("APIResponse", message, error, NoResult, <<>>, NoDocument)

\* what a handler did: the status and body written, and the trace of the
\* executor calls and database queries it made.  status 0: the handler
\* panicked and net/http closed the connection without a response.
Response(status, body, trace) == [status |-> status, body |-> body, trace |-> trace]

Aborted(trace) == Response(0, NoBody, trace)

DecodeError == Error("invalid JSON body", "")

\* an HTTP request: its method, whether the body decodes, and the decoded body
Request(method, wellFormed, body) ==
    [method |-> method, wellFormed |-> wellFormed, body |-> body]

\* json.Unmarshal([]byte(text), &data) succeeds on the text MarshalIndent made
IsJSON(text) == text.format = "json"

\* QueryHandler from the return of Execute on
QueryResponse(out) ==
    IF out.kind = "panic" THEN Aborted(out.trace)
    ELSE IF out.err # NoError
    THEN Response(500, TextBody("Query execution failed"), out.trace)
    ELSE IF Len(out.result.Content) > 0
    THEN IF ~IsJSON(out.result.Content[1].Text)
         THEN Response(500, TextBody("Failed to parse query result"), out.trace)
         ELSE Response(200,
                       Body("document", "", NoError, NoResult, <<>>,
                            out.result.Content[1].Text.doc),
                       out.trace)
    ELSE Response(500, TextBody("No data returned"), out.trace)

\* the input QueryHandler builds: the query and the limit, 100 when it is 0
HandlerInput(body) ==
    [k \in {"query", "limit"} |->
        IF k = "query" THEN Str(body.Query)
        ELSE Num(IF body.Limit = <<"0">> THEN <<"1","0","0">> ELSE body.Limit)]

\* DatabaseHandler.QueryHandler; r.body is QueryRequest {Query, Limit}
QueryHandler(r, cursor) ==
    IF r.method # "POST" THEN Response(405, TextBody("Method not allowed"), <<>>)
    ELSE IF ~r.wellFormed THEN Response(400, TextBody("Invalid request format"), <<>>)
    ELSE IF r.body.Query = <<>> THEN Response(400, TextBody("Query is required"), <<>>)
    ELSE QueryResponse(Execute(HandlerInput(r.body), cursor))

\* SingleToolHandler from the return of ExecuteTool on
SingleToolResponse(out) ==
    IF out.kind = "panic" THEN Aborted(out.trace)
    ELSE IF out.kind = "error"
    THEN Response(500, APIResponse("Tool execution failed", out.err), out.trace)
    ELSE Response(200, Body("ToolResult", "", NoError, out.result, <<>>, NoDocument),
                  out.trace)

\* SingleToolHandler; r.body is a ToolCall
SingleToolHandler(reg, r, cursor) ==
    IF r.method # "POST" THEN Response(405, TextBody("Method not allowed"), <<>>)
    ELSE IF ~r.wellFormed
    THEN Response(400, APIResponse("Invalid request format", DecodeError), <<>>)
    ELSE IF r.body.Name = ""
    THEN Response(400, APIResponse("Tool name is required",
                                   Error("Tool name cannot be empty", "")), <<>>)
    ELSE SingleToolResponse(ExecuteTool(reg, r.body.Name, r.body.Input, cursor))

\* ToolCallHandler from the return of ExecuteTools on
ToolCallResponse(out) ==
    IF out.kind = "panic" THEN Aborted(out.trace)
    ELSE Response(200,
                  Body("ToolExecutionResponse", "", NoError, NoResult,
                       out.results, NoDocument),
                  out.trace)

\* ToolCallHandler; r.body is a ToolExecutionRequest {Tools}
ToolCallHandler(reg, r, cursors) ==
    IF r.method # "POST" THEN Response(405, TextBody("Method not allowed"), <<>>)
    ELSE IF ~r.wellFormed
    THEN Response(400, APIResponse("Invalid request format", DecodeError), <<>>)
    ELSE IF Len(r.body.Tools) = 0
    THEN Response(400, APIResponse("No tools provided",
                                   Error("At least one tool must be provided", "")), <<>>)
    ELSE ToolCallResponse(ExecuteTools(reg, r.body.Tools, cursors))

(* ------------------------------ LLM path ------------------------------- *)

MessageResponse(message, items, error) ==
    [kind |-> "MessageResponse", message |-> message, error |-> error,
     result |-> NoResult, results |-> <<>>, doc |-> NoDocument, items |-> items]

\* an entry of AnthropicResponse.Content
TextContent(text) ==
    [Type |-> "text", Text |-> text, ID |-> <<>>, Name |-> "", Input |-> EmptyInput]
ToolUse(id, name, input) ==
    [Type |-> "tool_use", Text |-> "", ID |-> id, Name |-> name, Input |-> input]

\* what the vendor does for one request: kind is "transport" (the call
\* errors), "status" (a non-200 answer), "parse" (a body that is not JSON) or
\* "ok" with the parsed content list
Vendor(kind, content) == [kind |-> kind, content |-> content]

\* AnthropicClient.ProcessMessage: the error it returns (NoError for none),
\* the response, and the queries and requests it issued
\* ProcessMessage reading the schema before it looks at the credential
ProcessMessage_SchemaFirst(apiKey, vendor) ==
    LET schema == <<Event("SchemaQuery", EmptyInput, <<>>, NoError)>>
        issued == schema \o <<Event("VendorRequest", EmptyInput, <<>>, NoError)>>
    IN  IF apiKey = ""
        THEN [err |-> Error("ANTHROPIC_API_KEY environment variable is not set", ""),
              content |-> <<>>, trace |-> schema]
        ELSE IF vendor.kind = "transport"
        THEN [err |-> Error("failed to send request: %w", ""),
              content |-> <<>>, trace |-> issued]
        ELSE IF vendor.kind = "status"
        THEN [err |-> Error("API request failed: %s", ""),
              content |-> <<>>, trace |-> issued]
        ELSE IF vendor.kind = "parse"
        THEN [err |-> Error("failed to parse response: %w", ""),
              content |-> <<>>, trace |-> issued]
        ELSE [err |-> NoError, content |-> vendor.content, trace |-> issued]

ProcessMessage(apiKey, vendor) ==
    LET issued == <<Event("SchemaQuery", EmptyInput, <<>>, NoError),
                    Event("VendorRequest", EmptyInput, <<>>, NoError)>>
    IN  IF apiKey = ""
        THEN [err |-> Error("ANTHROPIC_API_KEY environment variable is not set", ""),
              content |-> <<>>, trace |-> <<>>]
        ELSE IF vendor.kind = "transport"
        THEN [err |-> Error("failed to send request: %w", ""),
              content |-> <<>>, trace |-> issued]
        ELSE IF vendor.kind = "status"
        THEN [err |-> Error("API request failed: %s", ""),
              content |-> <<>>, trace |-> issued]
        ELSE IF vendor.kind = "parse"
        THEN [err |-> Error("failed to parse response: %w", ""),
              content |-> <<>>, trace |-> issued]
        ELSE [err |-> NoError, content |-> vendor.content, trace |-> issued]

\* executeToolCall from the answer of http.Post on: a closed connection is
\* an error, any body that is a JSON object is the result, whatever the status
DecodeToolResponse(resp) ==
    IF resp.status = 0
    THEN [err |-> Error("failed to execute tool call: %w", ""),
          result |-> NoBody, trace |-> resp.trace]
    ELSE IF resp.body.kind = "text"
    THEN [err |-> Error("failed to parse tool result: %w", ""),
          result |-> NoBody, trace |-> resp.trace]
    ELSE [err |-> NoError, result |-> resp.body, trace |-> resp.trace]

\* LLMHandler.executeToolCall: POST the tool call to this server's
\* /tools/single and decode the answer
executeToolCall(reg, toolUseContent, cursor) ==
    DecodeToolResponse(
        SingleToolHandler(reg,
                          Request("POST", TRUE,
                                  ToolCall(toolUseContent.ID, toolUseContent.Name,
                                           toolUseContent.Input)),
                          cursor))

RECURSIVE ToolLoop(_, _, _, _, _, _)
RECURSIVE ToolLoopStep(_, _, _, _, _, _, _)

\* the loop body once executeToolCall has returned r
ToolLoopStep(reg, content, cursors, i, allResults, trace, r) ==
    IF r.err # NoError
    THEN [lastError |-> r.err, allResults |-> allResults, trace |-> trace \o r.trace]
    ELSE ToolLoop(reg, content, cursors, i + 1, Append(allResults, r.result),
                  trace \o r.trace)

\* for i, content := range anthropicResponse.Content { ... } from index i on
ToolLoop(reg, content, cursors, i, allResults, trace) ==
    IF i > Len(content)
    THEN [lastError |-> NoError, allResults |-> allResults, trace |-> trace]
    ELSE IF content[i].Type # "tool_use"
    THEN ToolLoop(reg, content, cursors, i + 1, allResults, trace)
    ELSE ToolLoopStep(reg, content, cursors, i, allResults, trace,
                      executeToolCall(reg, content[i], cursors[i]))

IsAPIKeyError(err) == err.msg = "ANTHROPIC_API_KEY environment variable is not set"

\* the answer of ProcessMessageHandler once the tool loop has ended
ToolUseResponse(loop) ==
    IF loop.lastError # NoError
    THEN Response(500, MessageResponse("Failed to execute tool call",
                                       <<>>, loop.lastError), loop.trace)
    ELSE Response(200, MessageResponse("Query executed successfully",
                                       loop.allResults, NoError), loop.trace)

\* ProcessMessageHandler from the return of ProcessMessage on
AnswerMessage(reg, cursors, pm) ==
    IF pm.err # NoError
    THEN IF IsAPIKeyError(pm.err)
         THEN Response(400, MessageResponse("Anthropic API key not configured",
                                            <<>>, pm.err), pm.trace)
         ELSE Response(500, MessageResponse("Failed to process message with LLM",
                                            <<>>, pm.err), pm.trace)
    ELSE IF Len(pm.content) > 0 /\ pm.content[1].Type = "tool_use"
    THEN ToolUseResponse(ToolLoop(reg, pm.content, cursors, 1, <<>>, pm.trace))
    \* anthropicResponse.Content[0] of an empty list: index out of range
    ELSE IF Len(pm.content) = 0 THEN Aborted(pm.trace)
    ELSE Response(200, MessageResponse(pm.content[1].Text, <<>>, NoError), pm.trace)

\* LLMHandler.ProcessMessageHandler; r.body is MessageRequest {Message}
ProcessMessageHandler(reg, apiKey, r, vendor, cursors) ==
    IF r.method # "POST" THEN Response(405, TextBody("Method not allowed"), <<>>)
    ELSE IF ~r.wellFormed
    THEN Response(400, MessageResponse("Invalid request format", <<>>, DecodeError), <<>>)
    ELSE IF r.body.Message = ""
    THEN Response(400, MessageResponse("Message is required", <<>>,
                                       Error("Message cannot be empty", "")), <<>>)
    ELSE AnswerMessage(reg, cursors, ProcessMessage(apiKey, vendor))

(* ------------------------------ inputs --------------------------------- *)

sp      == <<" ">>
select  == <<"s","e","l","e","c","t">>
one     == <<" ","1">>
from    == <<" ","F","R","O","M"," ">>

\* the pieces the queries of the Validate action are concatenated from
Fragments ==
    { sp, <<"\t">>, SELECT, select, <<"S","e","L">>, <<"E","C","T">>, one,
      <<"X">>, <<"E","D">>, <<";">>, <<"-","-">>,
      <<"D","R","O","P">>, <<"d","e","l","e","t","e">>,
      <<"U","p","d","a","t","e","s">>, <<"i","n","s","e","r","t">>,
      <<"A","L","T","E","R">>, <<"c","r","e","a","t","e","d">>,
      <<"T","r","u","n","c","a","t","e">>, <<"D","R">>, <<"O","P">> }

RECURSIVE Concat(_)
\* the concatenations of at most n fragments
Concat(n) ==
    IF n = 0 THEN {<<>>}
    ELSE LET shorter == Concat(n - 1)
         IN  shorter \cup {q \o f : q \in shorter, f \in Fragments}

Queries == Concat(MaxFrags)

id1 == <<"c","1">>
id2 == <<"c","2">>
limit100 == <<"1","0","0">>

QueryInput(q)      == [k \in {"query"} |-> Str(q)]
QueryLimitInput(q) == [k \in {"query", "limit"} |->
                          IF k = "query" THEN Str(q) ELSE Num(limit100)]
QueryIdInput(q, i) == [k \in {"query", "id"} |->
                          IF k = "query" THEN Str(q) ELSE Str(i)]
IdInput(i)         == [k \in {"id"} |-> Str(i)]
NumberQueryInput   == [k \in {"query"} |-> Num(<<"7">>)]
NumberQueryIdInput == [k \in {"query", "id"} |->
                          IF k = "query" THEN Num(<<"7">>) ELSE Str(id1)]
QueryNumberIdInput(q) == [k \in {"query", "id"} |->
                          IF k = "query" THEN Str(q) ELSE Num(<<"7">>)]

\* the inputs the Validate action is applied to
ValidateInputs ==
    {EmptyInput, IdInput(id1), NumberQueryInput}
    \cup {QueryInput(q) : q \in Queries}
    \cup {QueryLimitInput(q) : q \in Queries}

\* the queries the registry and the handlers are driven with
qSelect1   == SELECT \o one
qLower     == sp \o select \o one \o sp
qSelectX   == SELECT \o <<"X">> \o one
qUpdates   == SELECT \o one \o from \o <<"u","p","d","a","t","e","s">>
qDrop      == <<"D","R","O","P">> \o sp \o <<"t">>
qBlank     == sp \o sp

SampleQueries == {qSelect1, qLower, qSelectX, qUpdates, qDrop, qBlank, <<>>}

ToolInputs ==
    {EmptyInput, IdInput(id1), NumberQueryInput, NumberQueryIdInput}
    \cup {QueryInput(q) : q \in SampleQueries}
    \cup {QueryLimitInput(q) : q \in SampleQueries}
    \cup {QueryIdInput(q, id1) : q \in SampleQueries}
    \cup {QueryNumberIdInput(q) : q \in SampleQueries}

ToolNames == {"database_query", "database_schema", ""}

\* what the database may do for one query
oneRow  == <<Int64("1")>>
annRow  == <<String("ann"), Null>>
bobRow  == <<Bytes("bob"), Time("t1")>>
idRow   == <<Int64("1"), Int64("2")>>
infRow  == <<Float64("+Inf")>>
halfRow == <<Float64("0.5")>>
people  == <<"name", "phone_number">>
Cursors ==
    { Cursor(FALSE, FALSE, <<"x">>, <<>>, 0, FALSE),
      Cursor(FALSE, FALSE, <<"x">>, <<oneRow>>, 0, FALSE),
      Cursor(TRUE,  FALSE, <<>>,    <<>>, 0, FALSE),
      Cursor(FALSE, TRUE,  <<>>,    <<>>, 0, FALSE),
      Cursor(FALSE, FALSE, <<"x">>, <<oneRow, oneRow>>, 2, FALSE),
      Cursor(FALSE, FALSE, <<"x">>, <<oneRow>>, 0, TRUE),
      Cursor(FALSE, FALSE, <<"x">>, <<oneRow>>, 1, FALSE),
      Cursor(FALSE, FALSE, people,  <<annRow, bobRow>>, 0, FALSE),
      Cursor(FALSE, FALSE, people,  <<bobRow, annRow, bobRow>>, 0, FALSE),
      Cursor(FALSE, FALSE, people,  <<annRow, bobRow>>, 0, TRUE),
      Cursor(FALSE, FALSE, <<"id", "id">>, <<idRow>>, 0, FALSE),
      Cursor(FALSE, FALSE, <<"x">>, <<halfRow, infRow>>, 0, FALSE) }

\* the calls and database outcomes of a batch
BatchInputs ==
    {EmptyInput, QueryInput(qSelect1), QueryIdInput(qSelect1, id2),
     QueryInput(qDrop), QueryIdInput(qDrop, id2)}

BatchNames == {"database_query", "database_schema"}

BatchCalls ==
    {ToolCall(i, n, in) : i \in {id1, id2}, n \in BatchNames, in \in BatchInputs}

BatchCursors ==
    { Cursor(FALSE, FALSE, <<"x">>, <<oneRow>>, 0, FALSE),
      Cursor(TRUE,  FALSE, <<>>,    <<>>, 0, FALSE) }

SeqsUpTo(S, n) == UNION {[1..k -> S] : k \in 0..n}

\* the HTTP requests the handlers are driven with
Methods == {"POST", "GET"}

QueryRequest(q, limit) == [Query |-> q, Limit |-> limit]

QueryRequests ==
    {Request(m, TRUE, QueryRequest(q, l)) :
        m \in Methods, q \in SampleQueries, l \in {<<"0">>, <<"5">>}}
    \cup {Request("POST", FALSE, QueryRequest(<<>>, <<"0">>))}

SingleToolRequests ==
    {Request(m, TRUE, ToolCall(id1, n, in)) :
        m \in Methods, n \in ToolNames, in \in ToolInputs}
    \cup {Request("POST", FALSE, ToolCall(<<>>, "", EmptyInput))}

ToolExecutionRequest(toolCalls) == [Tools |-> toolCalls]

ToolCallRequests ==
    {Request(m, TRUE, ToolExecutionRequest(cs)) :
        m \in Methods, cs \in SeqsUpTo(BatchCalls, MaxCalls)}
    \cup {Request("POST", FALSE, ToolExecutionRequest(<<>>))}


\* a bound on the content list of a vendor response
MaxContent == 2

MessageRequest(message) == [Message |-> message]

MessageRequests ==
    {Request(m, TRUE, MessageRequest(msg)) : m \in Methods, msg \in {"", "hello"}}
    \cup {Request("POST", FALSE, MessageRequest(""))}

ContentItems ==
    {TextContent("answer")}
    \cup {ToolUse(id1, n, in) :
            n \in {"database_query", "database_schema"},
            in \in {EmptyInput, QueryInput(qSelect1), QueryInput(qDrop),
                    QueryIdInput(qDrop, id2)}}

Vendors ==
    {Vendor("transport", <<>>), Vendor("status", <<>>), Vendor("parse", <<>>)}
    \cup {Vendor("ok", c) : c \in SeqsUpTo(ContentItems, MaxContent)}

(* ------------------------------ state ---------------------------------- *)

VARIABLES
    tools,   \* ToolRegistry.tools of the engine's registry
    APIKey,  \* AnthropicClient.APIKey, read from the environment at start
    op,      \* the operation that has run and not yet returned, or "idle"
    call,    \* its arguments and what the database did for it
    ret,     \* what it returned and did
    main,    \* the statement of Startup that main executes next
    requests \* the requests the server is serving concurrently

vars == <<tools, APIKey, op, call, ret, main, requests>>

\* the server serves at most MaxRequests requests at a time
MaxRequests == 3

\* what main does before it blocks on the quit channel, in order
Startup_ServeFirst == <<"ListenAndServe", "InitializeToolEngine">>

Startup == <<"InitializeToolEngine", "ListenAndServe">>

\* main has executed the statement
Done(statement) == \E i \in 1..(main - 1) : Startup[i] = statement

\* a request slot: pc is "idle", "handling" (the handler runs and has not
\* yet read the registry) or "looked" (it has, and saw the names in seen)
Slot(pc, handler, seen) == [pc |-> pc, handler |-> handler, seen |-> seen]
IdleSlot == Slot("idle", "", {})

\* name, input: of ExecuteTool and Validate; toolCalls: of ExecuteTools;
\* request: of a handler; cursors: the database's answer to each query
NoCall ==
    [name |-> "", input |-> EmptyInput, toolCalls |-> <<>>, cursors |-> <<>>,
     request |-> Request("", FALSE, [Query |-> <<>>, Limit |-> <<"0">>]),
     vendor |-> Vendor("", <<>>), executor |-> ""]

\* kind: "nil" / "error" (Validate), "result" / "error" / "panic" (ExecuteTool),
\* "results" / "panic" (ExecuteTools), "response" / "aborted" (a handler)
NoRet ==
    [kind |-> "", result |-> NoResult, results |-> <<>>, err |-> NoError,
     trace |-> <<>>, status |-> 0, body |-> NoBody, content |-> <<>>,
     definitions |-> <<>>,
     entry |-> ToolRegistryEntry(ToolDefinition("", ""), ""), exists |-> FALSE]

HandlerRet(resp) ==
    [NoRet EXCEPT !.kind = IF resp.status = 0 THEN "aborted" ELSE "response",
                  !.status = resp.status, !.body = resp.body,
                  !.trace = resp.trace]

Init ==
    /\ main = Len(Startup) + 1
    /\ requests = [r \in 1..MaxRequests |-> IdleSlot]
    /\ tools = NewToolEngine
    /\ APIKey \in {"", "sk-key"}
    /\ op = "idle"
    /\ call = NoCall
    /\ ret = NoRet

\* DatabaseQueryTool.Validate(input)
DoValidate ==
    \E input \in ValidateInputs :
        LET err == Validate(input)
        IN  /\ op = "idle"
            /\ op' = "Validate"
            /\ call' = [NoCall EXCEPT !.input = input]
            /\ ret' = [NoRet EXCEPT !.kind = IF err = NoError THEN "nil" ELSE "error",
                                    !.err = err]
            /\ UNCHANGED <<tools, APIKey, main, requests>>

\* ToolRegistry.ExecuteTool(name, input)
DoExecuteTool ==
    \E name \in ToolNames, input \in ToolInputs, cursor \in Cursors :
        LET out == ExecuteTool(tools, name, input, cursor)
        IN  /\ op = "idle"
            \* the calls made are those the query tool's Validate and Execute answer
            /\ name \in DOMAIN tools => tools[name].Executor = "DatabaseQueryTool"
            /\ op' = "ExecuteTool"
            /\ call' = [NoCall EXCEPT !.name = name, !.input = input,
                                      !.cursors = <<cursor>>]
            /\ ret' = [NoRet EXCEPT !.kind = out.kind, !.result = out.result,
                                    !.err = out.err, !.trace = out.trace]
            /\ UNCHANGED <<tools, APIKey, main, requests>>

\* ToolRegistry.ExecuteTools(toolCalls)
DoExecuteTools ==
    \E n \in 0..MaxCalls :
    \E toolCalls \in [1..n -> BatchCalls], cursors \in [1..n -> BatchCursors] :
        LET out == ExecuteTools(tools, toolCalls, cursors)
        IN  /\ op = "idle"
            /\ op' = "ExecuteTools"
            /\ call' = [NoCall EXCEPT !.toolCalls = toolCalls, !.cursors = cursors]
            /\ ret' = [NoRet EXCEPT !.kind = out.kind, !.results = out.results,
                                    !.trace = out.trace]
            /\ UNCHANGED <<tools, APIKey, main, requests>>

\* POST /db/query
DoQueryHandler ==
    \E r \in QueryRequests, cursor \in Cursors :
        /\ op = "idle"
        /\ op' = "QueryHandler"
        /\ call' = [NoCall EXCEPT !.request = r, !.cursors = <<cursor>>]
        /\ ret' = HandlerRet(QueryHandler(r, cursor))
        /\ UNCHANGED <<tools, APIKey, main, requests>>

\* POST /tools/single
DoSingleToolHandler ==
    \E r \in SingleToolRequests, cursor \in Cursors :
        /\ op = "idle"
        /\ op' = "SingleToolHandler"
        /\ call' = [NoCall EXCEPT !.request = r, !.cursors = <<cursor>>]
        /\ ret' = HandlerRet(SingleToolHandler(tools, r, cursor))
        /\ UNCHANGED <<tools, APIKey, main, requests>>

\* POST /tools/execute
DoToolCallHandler ==
    \E r \in ToolCallRequests :
    \E cursors \in [1..Len(r.body.Tools) -> BatchCursors] :
        /\ op = "idle"
        /\ op' = "ToolCallHandler"
        /\ call' = [NoCall EXCEPT !.request = r, !.cursors = cursors]
        /\ ret' = HandlerRet(ToolCallHandler(tools, r, cursors))
        /\ UNCHANGED <<tools, APIKey, main, requests>>

\* POST /llm/message
DoProcessMessageHandler ==
    \E r \in MessageRequests, vendor \in Vendors :
    \E cursors \in [1..Len(vendor.content) -> BatchCursors] :
        /\ op = "idle"
        /\ op' = "ProcessMessageHandler"
        /\ call' = [NoCall EXCEPT !.request = r, !.vendor = vendor,
                                  !.cursors = cursors]
        /\ ret' = HandlerRet(ProcessMessageHandler(tools, APIKey, r, vendor, cursors))
        /\ UNCHANGED <<tools, APIKey, main, requests>>

\* AnthropicClient.ProcessMessage(userMessage)
DoProcessMessage ==
    \E vendor \in Vendors :
        LET pm == ProcessMessage(APIKey, vendor)
        IN  /\ op = "idle"
            /\ op' = "ProcessMessage"
            /\ call' = [NoCall EXCEPT !.vendor = vendor]
            /\ ret' = [NoRet EXCEPT !.kind = IF pm.err = NoError THEN "response"
                                             ELSE "error",
                                    !.err = pm.err, !.content = pm.content,
                                    !.trace = pm.trace]
            /\ UNCHANGED <<tools, APIKey, main, requests>>

\* ToolEngine.GetAvailableTools()
DoGetAvailableTools ==
    \E definitions \in ListTools(tools) :
        /\ op = "idle"
        /\ op' = "GetAvailableTools"
        /\ call' = NoCall
        /\ ret' = [NoRet EXCEPT !.kind = "definitions", !.definitions = definitions]
        /\ UNCHANGED <<tools, APIKey, main, requests>>

\* the operation is over: its arguments and its result are per-call values
\* that nothing keeps, and the next operation starts from the registry alone
Return ==
    /\ op # "idle"
    /\ op' = "idle"
    /\ call' = NoCall
    /\ ret' = NoRet
    /\ UNCHANGED <<tools, APIKey, main, requests>>

Next ==
    \/ DoValidate
    \/ DoExecuteTool
    \/ DoExecuteTools
    \/ DoQueryHandler
    \/ DoSingleToolHandler
    \/ DoToolCallHandler
    \/ DoProcessMessageHandler
    \/ DoProcessMessage
    \/ DoGetAvailableTools
    \/ Return

Spec == Init /\ [][Next]_vars

(* ------------------- the registry under registrations ------------------ *)

\* the names and executors RegisterTool is called with
RegistryNames == {"database_query", "database_smart_query"}
Executors     == {"DatabaseQueryTool", "DatabaseSmartQueryTool"}

InitRegistry ==
    /\ main = Len(Startup) + 1
    /\ requests = [r \in 1..MaxRequests |-> IdleSlot]
    /\ tools = NewToolRegistry
    /\ APIKey = ""
    /\ op = "idle"
    /\ call = NoCall
    /\ ret = NoRet

\* ToolRegistry.RegisterTool(name, executor)
DoRegisterTool ==
    \E name \in RegistryNames, executor \in Executors :
        /\ op = "idle"
        /\ op' = "RegisterTool"
        /\ call' = [NoCall EXCEPT !.name = name, !.executor = executor]
        /\ ret' = NoRet
        /\ tools' = RegisterTool(tools, name, executor)
        /\ UNCHANGED <<APIKey, main, requests>>

\* ToolRegistry.GetTool(name)
DoGetTool ==
    \E name \in RegistryNames \cup {"database_schema"} :
        LET got == GetTool(tools, name)
        IN  /\ op = "idle"
            /\ op' = "GetTool"
            /\ call' = [NoCall EXCEPT !.name = name]
            /\ ret' = [NoRet EXCEPT !.kind = "entry", !.entry = got.entry,
                                    !.exists = got.exists]
            /\ UNCHANGED <<tools, APIKey, main, requests>>

NextRegistry ==
    \/ DoRegisterTool
    \/ DoGetTool
    \/ DoGetAvailableTools
    \/ DoExecuteTool
    \/ Return

SpecRegistry == InitRegistry /\ [][NextRegistry]_vars

(* ------------------ start-up and concurrent requests ------------------- *)

\* the handlers that read the registry of the global tool engine
RegistryHandlers ==
    {"ToolsHandler", "ToolCallHandler", "SingleToolHandler", "ProcessMessageHandler"}

\* the process before main runs: no engine, no request
InitServer ==
    /\ main = 1
    /\ requests = [r \in 1..MaxRequests |-> IdleSlot]
    /\ tools = NewToolRegistry
    /\ APIKey = ""
    /\ op = "idle"
    /\ call = NoCall
    /\ ret = NoRet

\* main executes its next statement: InitializeToolEngine builds the engine
\* and registers its tools, ListenAndServe starts accepting requests
MainStep ==
    /\ main <= Len(Startup)
    /\ main' = main + 1
    /\ tools' = IF Startup[main] = "InitializeToolEngine" THEN NewToolEngine
                 ELSE tools
    /\ UNCHANGED <<APIKey, op, call, ret, requests>>

\* the server accepts a request and starts its handler in a new goroutine
Accept(r) ==
    /\ Done("ListenAndServe")
    /\ requests[r].pc = "idle"
    /\ \E handler \in RegistryHandlers :
          requests' = [requests EXCEPT ![r] = Slot("handling", handler, {})]
    /\ UNCHANGED <<tools, APIKey, op, call, ret, main>>

\* the handler reads the registry: GetTool in ExecuteTool, ListTools in
\* GetAvailableTools
Lookup(r) ==
    /\ requests[r].pc = "handling"
    /\ requests' = [requests EXCEPT ![r] = Slot("looked", requests[r].handler,
                                                DOMAIN tools)]
    /\ UNCHANGED <<tools, APIKey, op, call, ret, main>>

\* the handler writes its response and the goroutine ends
Respond(r) ==
    /\ requests[r].pc = "looked"
    /\ requests' = [requests EXCEPT ![r] = IdleSlot]
    /\ UNCHANGED <<tools, APIKey, op, call, ret, main>>

NextServer ==
    \/ MainStep
    \/ \E r \in 1..MaxRequests : Accept(r)
    \/ \E r \in 1..MaxRequests : Lookup(r)
    \/ \E r \in 1..MaxRequests : Respond(r)

SpecServer == InitServer /\ [][NextServer]_vars

(* ======================= properties: C1 .. C6 ========================== *)

Trace == ret.trace

\* the database queries the Database Query Tool issued during the operation
QueryEvents == {i \in DOMAIN Trace : Trace[i].e = "Query"}

\* Validate has accepted the string sql earlier in the trace than position i
ValidatedBefore(i, sql) ==
    \E j \in 1..(i - 1) :
        /\ Trace[j].e = "Validate"
        /\ Trace[j].err = NoError
        /\ IsString(Trace[j].in, "query")
        /\ Trace[j].in["query"].v = sql

Registered(name) == name \in DOMAIN tools

\* C1: on every request path that reaches the Database Query Tool, a query
\* string is handed to Connection.Query only after Validate has accepted that
\* same string, so a query that Validate rejects is never executed.
C1_QueryOnlyAfterValidate ==
    \A i \in QueryEvents :
        /\ ValidatedBefore(i, Trace[i].sql)
        /\ Validate(QueryInput(Trace[i].sql)) = NoError

\* C2: for a registered tool and an input that fails Validate, ExecuteTool
\* returns a ToolResult with is_error = true and error.type =
\* "validation_error", and a nil Go error.
C2_ValidationFailureIsResult ==
    (op = "ExecuteTool" /\ Registered(call.name) /\ Validate(call.input) # NoError)
    => /\ ret.kind = "result"
       /\ ret.result.IsError
       /\ ret.result.Error.Type = "validation_error"
       /\ ret.err = NoError

RegistryOps ==
    {"ExecuteTool", "ExecuteTools", "SingleToolHandler", "ToolCallHandler",
     "ProcessMessageHandler"}

\* C3: wherever the registry dispatches a call, Execute runs only directly
\* after a Validate of the same input that returned nil; a call whose input
\* fails Validate reaches neither Execute nor the database.
C3_ValidateBeforeExecute ==
    /\ op \in RegistryOps =>
         \A i \in DOMAIN Trace :
            Trace[i].e = "Execute" =>
                /\ i > 1
                /\ Trace[i - 1].e = "Validate"
                /\ Trace[i - 1].in = Trace[i].in
                /\ Trace[i - 1].err = NoError
    /\ (op = "ExecuteTool" /\ Registered(call.name) /\ Validate(call.input) # NoError)
         => /\ Len(Trace) = 1
            /\ Trace[1].e = "Validate"
            /\ Trace[1].in = call.input

\* C3 witness: ExecuteTool has run on a registered tool with an input that
\* fails validation, and only Validate was called.
C3_Witness ==
    /\ op = "ExecuteTool"
    /\ Registered(call.name)
    /\ Validate(call.input) # NoError
    /\ ret.kind = "result"
    /\ Len(Trace) = 1

\* C4: ExecuteTool returns a Go error exactly when the name is unregistered:
\* then the error is "tool not found", there is no result and no executor
\* was called; for a registered name the Go error is nil whatever the input
\* and whatever the database did.
C4_ErrorIffUnregistered ==
    op = "ExecuteTool" =>
        /\ (ret.kind = "error") <=> ~Registered(call.name)
        /\ (ret.err # NoError) <=> ~Registered(call.name)
        /\ ~Registered(call.name) =>
              /\ ret.err = Error("tool '%s' not found", call.name)
              /\ ret.result = NoResult
              /\ Trace = <<>>

\* C4 witness: ExecuteTool has run on an unregistered name and returned the
\* error.
C4_Witness ==
    /\ op = "ExecuteTool"
    /\ ~Registered(call.name)
    /\ ret.kind = "error"
    /\ ret.err.msg = "tool '%s' not found"

\* the result a batch owes the call at index i
CallOutcome(i) ==
    LET tc  == call.toolCalls[i]
        out == ExecuteTool(tools, tc.Name, tc.Input, call.cursors[i])
    IN  IF out.kind = "error" THEN ExecutionError(tc.ID, out.err) ELSE out.result

\* C5: ExecuteTools returns exactly len(calls) results, the result at index
\* i being the outcome of the call at index i.
C5_OneResultPerCallInOrder ==
    op = "ExecuteTools" =>
        /\ ret.kind = "results"
        /\ Len(ret.results) = Len(call.toolCalls)
        /\ \A i \in 1..Len(call.toolCalls) : ret.results[i] = CallOutcome(i)

\* the call at index i of the batch fails: unknown tool, validation failure
\* or database failure
CallFails(i) ==
    LET tc == call.toolCalls[i]
        c  == call.cursors[i]
    IN  \/ ~Registered(tc.Name)
        \/ Validate(tc.Input) # NoError
        \/ c.queryErr \/ c.columnsErr \/ c.iterErr
        \/ (c.scanErrAt > 0 /\ c.scanErrAt <= Len(c.rows))

\* the call at index j was attempted and has a result of its own
CallAttempted(j) ==
    LET tc == call.toolCalls[j]
    IN  /\ ret.kind = "results"
        /\ j \in DOMAIN ret.results
        /\ ret.results[j] # NoResult
        /\ Registered(tc.Name) =>
              \E k \in DOMAIN Trace :
                  Trace[k].e = "Validate" /\ Trace[k].in = tc.Input

\* C6: in ExecuteTools the failure of one call never aborts the batch: every
\* other call is still attempted and receives its own result.
C6_FailureDoesNotAbortBatch ==
    op = "ExecuteTools" =>
        \A i \in 1..Len(call.toolCalls) :
            CallFails(i) =>
                \A j \in 1..Len(call.toolCalls) : j # i => CallAttempted(j)

(* ======================= properties: C7 .. C10 ========================= *)

\* the query string of the input Validate was applied to
Q == call.input["query"].v

ValidatedString == op = "Validate" /\ IsString(call.input, "query")

InvalidInput == {"query must be a string", "query cannot be empty"}
ForbiddenStatement == "only SELECT queries are allowed"
ForbiddenKeyword == "query contains forbidden keyword: %s"

\* q, read without regard to letter case, has the word w at offset k
WordAt(q, w, k) ==
    /\ k + Len(w) <= Len(q)
    /\ \A j \in 1..Len(w) : ToUpperChar(q[k + j]) = w[j]

\* after leading white space q begins with the letters SELECT in any case
StartsWithSelect(q) ==
    \E k \in 0..Len(q) :
        /\ \A j \in 1..k : q[j] \in WhiteSpace
        /\ WordAt(q, SELECT, k)

\* q holds one of the seven keywords somewhere, in any letter case
HasKeyword(q) ==
    \E n \in 1..Len(dangerousKeywords), k \in 0..Len(q) :
        WordAt(q, dangerousKeywords[n], k)

OnlyWhiteSpace(q) == \A j \in 1..Len(q) : q[j] \in WhiteSpace

IdentChars ==
    {Upper[i] : i \in 1..Len(Upper)} \cup {Lower[i] : i \in 1..Len(Lower)}
    \cup {"0", "1", "2", "3", "4", "5", "6", "7", "8", "9", "_"}

\* the first token of q is the word SELECT: the letters SELECT after the
\* leading white space, not followed by a further identifier character
FirstTokenIsSelect(q) ==
    \E k \in 0..Len(q) :
        /\ \A j \in 1..k : q[j] \in WhiteSpace
        /\ WordAt(q, SELECT, k)
        /\ (k + 6 < Len(q) => q[k + 7] \notin IdentChars)

\* C7 as stated: Validate fails with the invalid-input condition when the
\* query is missing, is not a string, or is empty after trimming white space.
C7_Original ==
    (op = "Validate" /\ (~IsString(call.input, "query") \/ OnlyWhiteSpace(Q)))
    => ret.err.msg \in InvalidInput

C9_KeywordRejected ==
    (ValidatedString /\ HasKeyword(Q))
    => /\ ret.kind = "error"
       /\ ret.err # NoError
       /\ StartsWithSelect(Q) => ret.err.msg = ForbiddenKeyword

\* C9 witness: Validate has rejected, with forbidden-keyword, a query that
\* starts with SELECT and holds a keyword in lower or mixed case.
C9_Witness ==
    /\ ValidatedString
    /\ StartsWithSelect(Q)
    /\ HasKeyword(Q)
    /\ ~Contains(Q, dangerousKeywords[1])
    /\ ~Contains(Q, dangerousKeywords[5])
    /\ ret.err.msg = ForbiddenKeyword

DirectOps == {"ExecuteTool", "SingleToolHandler", "QueryHandler"}

CallerInput ==
    IF op = "ExecuteTool" THEN call.input
    ELSE IF op = "SingleToolHandler" THEN call.request.body.Input
    ELSE [k \in {"query"} |-> Str(call.request.body.Query)]

\* the result Execute returned, as the operation hands it on
ExecuteResult ==
    IF op = "ExecuteTool" THEN ret.result
    ELSE IF op = "SingleToolHandler" THEN ret.body.result
    ELSE NoResult

\* the document of a successful Execute, as the operation hands it on
ResultDocument ==
    IF op = "QueryHandler" THEN ret.body.doc
    ELSE ExecuteResult.Content[1].Text.doc

\* Execute ran to its last line: the operation carries a document
HasDocument ==
    /\ op \in DirectOps
    /\ QueryEvents # {}
    /\ IF op = "QueryHandler" THEN ret.status = 200 /\ ret.body.kind = "document"
       ELSE /\ ret.kind \in {"result", "response"}
            /\ (op = "SingleToolHandler" => ret.status = 200)
            /\ ~ExecuteResult.IsError
            /\ ExecuteResult.Content[1].Text.format = "json"

SingleCallOps == {"ExecuteTool", "SingleToolHandler"}

CallerName ==
    IF op = "ExecuteTool" THEN call.name ELSE call.request.body.Name

\* the registry's Validate accepted the caller's input and Execute ran
ValidatedCall ==
    /\ op \in SingleCallOps
    /\ QueryEvents # {}
    /\ Registered(CallerName)
    /\ Validate(CallerInput) = NoError

\* the stage at which the database driver fails for cursor c, "" if none
FailedStage(c) ==
    IF c.queryErr THEN "query"
    ELSE IF c.columnsErr THEN "columns"
    ELSE IF c.scanErrAt \in 1..Len(c.rows) THEN "scan"
    ELSE IF c.iterErr THEN "iterate"
    ELSE ""

\* the rows the cursor had yielded before it failed
ScannedBeforeFailure(c) ==
    IF FailedStage(c) = "scan" THEN c.scanErrAt - 1
    ELSE IF FailedStage(c) = "iterate" THEN Len(c.rows)
    ELSE 0

\* C12: for every validated input, a failure at the query, columns, scan or
\* iterate stage yields a ToolResult with is_error = true, error.type =
\* "query_error", one text content item and a nil Go error, and none of the
\* rows scanned before the failure.
C12_StageFailureIsQueryError ==
    (ValidatedCall /\ FailedStage(call.cursors[1]) # "")
    => /\ ret.kind \in {"result", "response"}
       /\ ret.err = NoError
       /\ ExecuteResult.IsError
       /\ ExecuteResult.Error.Type = "query_error"
       /\ ExecuteResult.Error.Message = DriverError(FailedStage(call.cursors[1]))
       /\ Len(ExecuteResult.Content) = 1
       /\ ExecuteResult.Content[1].Type = "text"
       /\ ExecuteResult.Content[1].Text.format # "json"
       /\ ExecuteResult.Content[1].Text.doc = NoDocument

\* C12 witness: the scan of the second row failed after one row was scanned,
\* and ExecuteTool returned a query_error result.
C12_Witness ==
    /\ op = "ExecuteTool"
    /\ ValidatedCall
    /\ FailedStage(call.cursors[1]) = "scan"
    /\ ScannedBeforeFailure(call.cursors[1]) = 1
    /\ ret.result.Error.Type = "query_error"

\* Execute went through all four stages without a failure
NoStageFailed ==
    /\ op \in DirectOps
    /\ QueryEvents # {}
    /\ FailedStage(call.cursors[1]) = ""

\* C13: when no stage fails, Execute returns is_error = false with exactly
\* one content item of type "text" holding the document {query, columns,
\* row_count, data}, where columns is the cursor's column list and row_count
\* is both the number of rows the cursor yielded and the number of entries
\* of data.
C13_SuccessDocument ==
    (NoStageFailed /\ op \in SingleCallOps)
    => /\ ret.kind \in {"result", "response"}
       /\ ret.err = NoError
       /\ ~ExecuteResult.IsError
       /\ Len(ExecuteResult.Content) = 1
       /\ ExecuteResult.Content[1].Type = "text"
       /\ ExecuteResult.Content[1].Text.format = "json"
       /\ ResultDocument.columns = call.cursors[1].columns
       /\ ResultDocument.row_count = Len(call.cursors[1].rows)
       /\ ResultDocument.row_count = Len(ResultDocument.data.rows)

\* the column list and the rows the document was built from
DocColumns == call.cursors[1].columns
DocRows    == call.cursors[1].rows
DocData    == ResultDocument.data.rows

\* C14: every entry of data contains exactly the selected columns as keys,
\* one key per entry of columns and no others, so the number of keys of each
\* row equals the number of columns, also when two columns share a name.
C14_RowKeysAreColumns ==
    HasDocument =>
        \A k \in 1..Len(DocData) :
            /\ DOMAIN DocData[k] = {DocColumns[i] : i \in 1..Len(DocColumns)}
            /\ Cardinality(DOMAIN DocData[k]) = Len(DocColumns)

\* the value the output is to hold for the driver's value v
Mapped(v) ==
    CASE v.ty = "nil"    -> [ty |-> "nil", val |-> ""]
      [] v.ty = "[]byte" -> [ty |-> "string", val |-> v.val]
      [] v.ty = "time"   -> [ty |-> "string", val |-> RFC3339(v.val)]
      [] OTHER           -> v

\* no later column of the row is stored under the name of column i
Retained(i) == \A j \in (i + 1)..Len(DocColumns) : DocColumns[j] # DocColumns[i]

\* C15: for every column value of every row, Execute maps null to null, a
\* binary payload to its text decoding, a timestamp to its RFC 3339 string,
\* and any other value to itself unchanged.
C15_ValueConversion ==
    HasDocument =>
        \A k \in 1..Len(DocData) : \A i \in 1..Len(DocColumns) :
            Retained(i) => DocData[k][DocColumns[i]] = Mapped(DocRows[k][i])

\* C15 witness: a document whose rows held a null, a binary payload, a
\* timestamp and a string.
C15_Witness ==
    /\ HasDocument
    /\ DocRows = <<annRow, bobRow>>
    /\ DocData[1]["phone_number"].ty = "nil"
    /\ DocData[2]["name"] = String("bob")
    /\ DocData[2]["phone_number"] = String("2024-01-02T03:04:05Z")

\* the operations that run a batch through ExecuteTools, their calls and
\* the results they hand on
BatchOps == {"ExecuteTools", "ToolCallHandler"}

BatchCallsMade ==
    IF op = "ExecuteTools" THEN call.toolCalls ELSE call.request.body.Tools

BatchResults ==
    IF op = "ExecuteTools" THEN ret.results ELSE ret.body.results

\* the batch ran and returned its results
BatchReturned ==
    /\ op \in BatchOps
    /\ IF op = "ExecuteTools" THEN ret.kind = "results"
       ELSE ret.status = 200 /\ ret.body.kind = "ToolExecutionResponse"

\* what the executor of call i returned when the registry delegated to it
Executed(i) == Execute(BatchCallsMade[i].Input, call.cursors[i])

Delegated(i) ==
    /\ Registered(BatchCallsMade[i].Name)
    /\ Validate(BatchCallsMade[i].Input) = NoError

\* C17: a result with error.type = "execution_error" is produced only when
\* the executor's Execute itself returned a Go error; a structured error
\* result of the executor is passed on unchanged, and nothing else (such as
\* an unregistered tool name in a batch) is reported as execution_error.
C17_ExecutionErrorOnlyFromExecutor ==
    BatchReturned =>
        \A i \in 1..Len(BatchResults) :
            /\ BatchResults[i].Error.Type = "execution_error"
                 => Delegated(i) /\ Executed(i).err # NoError
            /\ (Delegated(i) /\ Executed(i).err = NoError)
                 => BatchResults[i] = Executed(i).result

Handlers ==
    {"QueryHandler", "SingleToolHandler", "ToolCallHandler", "ProcessMessageHandler"}

\* the handler answered with an explicit error response
NonSuccess == ret.kind = "response" /\ ret.status \notin 200..299

\* the request passed the handler's checks of method and body
Accepted == call.request.method = "POST" /\ call.request.wellFormed

\* ProcessMessageHandler got a vendor response and entered its tool loop
LoopEntered ==
    /\ op = "ProcessMessageHandler"
    /\ Accepted
    /\ call.request.body.Message # ""
    /\ APIKey # ""
    /\ call.vendor.kind = "ok"
    /\ Len(call.vendor.content) > 0
    /\ call.vendor.content[1].Type = "tool_use"

ToolUses == {i \in 1..Len(call.vendor.content) : call.vendor.content[i].Type = "tool_use"}

\* C18: infrastructure errors reach the HTTP caller as explicit error
\* responses with a non-2xx status on every endpoint: an unregistered tool
\* name (/tools/single, /tools/execute, a tool call on the LLM path), a
\* malformed request body, and a missing LLM credential.
C18_InfrastructureErrorsNon2xx ==
    /\ (op = "SingleToolHandler" /\ Accepted /\ call.request.body.Name # ""
          /\ ~Registered(call.request.body.Name))
         => NonSuccess
    /\ (op = "ToolCallHandler" /\ Accepted
          /\ \E i \in 1..Len(call.request.body.Tools) :
                ~Registered(call.request.body.Tools[i].Name))
         => NonSuccess
    /\ (LoopEntered /\ \E i \in ToolUses : ~Registered(call.vendor.content[i].Name))
         => NonSuccess
    /\ (op \in Handlers /\ call.request.method = "POST" /\ ~call.request.wellFormed)
         => NonSuccess
    /\ (op = "ProcessMessageHandler" /\ Accepted /\ call.request.body.Message # ""
          /\ APIKey = "")
         => NonSuccess

\* the answer describes the failure of the driver as a query_error result
DescribesQueryError(result, c) ==
    /\ result.IsError
    /\ result.Error.Type = "query_error"
    /\ result.Error.Message = DriverError(FailedStage(c))

\* C19: when the driver fails at the query, columns, scan or iterate stage,
\* the HTTP caller receives a 200 body describing the failure as a
\* structured query_error, on /tools/single, /tools/execute and /db/query
\* alike.
C19_DriverFailureIs200 ==
    /\ (op = "SingleToolHandler" /\ QueryEvents # {}
          /\ FailedStage(call.cursors[1]) # "")
         => /\ ret.status = 200
            /\ DescribesQueryError(ret.body.result, call.cursors[1])
    /\ (op = "ToolCallHandler" /\ Accepted)
         => \A i \in 1..Len(call.request.body.Tools) :
               (Delegated(i) /\ FailedStage(call.cursors[i]) # "")
                 => /\ ret.status = 200
                    /\ DescribesQueryError(ret.body.results[i], call.cursors[i])
    /\ (op = "QueryHandler" /\ QueryEvents # {}
          /\ FailedStage(call.cursors[1]) # "")
         => /\ ret.status = 200
            /\ ret.body.kind \notin {"text", "none"}

\* what this server's /tools/single answers for the tool call at position i
\* of the vendor's content list
Answer(i) ==
    SingleToolHandler(tools,
                      Request("POST", TRUE,
                              ToolCall(call.vendor.content[i].ID,
                                       call.vendor.content[i].Name,
                                       call.vendor.content[i].Input)),
                      call.cursors[i])

\* the tool endpoint reported the execution of tool call i as failed
FailsAt(i) ==
    \/ Answer(i).status # 200
    \/ Answer(i).body.result.IsError

FirstFailure ==
    CHOOSE i \in ToolUses : FailsAt(i) /\ \A j \in ToolUses : j < i => ~FailsAt(j)

RECURSIVE CallsTrace(_)
\* what executing the tool calls at positions 1..n, in order, does
CallsTrace(n) ==
    IF n = 0 THEN <<>>
    ELSE CallsTrace(n - 1) \o (IF n \in ToolUses THEN Answer(n).trace ELSE <<>>)

\* C20: on the LLM path the tool calls of one response are executed in
\* response order, and the first tool call whose execution fails (tool not
\* found, validation error or query error reported by the tool endpoint)
\* stops the loop: no later tool call is executed and the request is
\* answered as a failure, not as a success carrying partial results.
C20_FirstFailureStopsLoop ==
    (LoopEntered /\ \E i \in ToolUses : FailsAt(i))
    => /\ NonSuccess
       /\ Trace = ProcessMessage(APIKey, call.vendor).trace \o CallsTrace(FirstFailure)

(* ====================== properties: C21 .. C30 ========================= *)

ConfigurationError == "ANTHROPIC_API_KEY environment variable is not set"
TransportErrors    == {"failed to send request: %w", "API request failed: %s"}
ParseError         == "failed to parse response: %w"

\* C21: ProcessMessage fails with a configuration error when no credential
\* is present, before any schema query or vendor request is issued; with a
\* credential it fails with a transport error when the vendor call errors or
\* answers a non-200 status, with a parse error when the body is not
\* well-formed JSON, and otherwise returns the parsed response.
C21_ProcessMessageErrors ==
    op = "ProcessMessage" =>
        /\ APIKey = ""
             => /\ ret.err.msg = ConfigurationError
                /\ ret.trace = <<>>
        /\ (APIKey # "" /\ call.vendor.kind \in {"transport", "status"})
             => ret.err.msg \in TransportErrors
        /\ (APIKey # "" /\ call.vendor.kind = "parse")
             => ret.err.msg = ParseError
        /\ (APIKey # "" /\ call.vendor.kind = "ok")
             => /\ ret.err = NoError
                /\ ret.content = call.vendor.content

\* C21 witness: ProcessMessage ran without a credential and failed with the
\* configuration error.
C21_Witness ==
    /\ op = "ProcessMessage"
    /\ APIKey = ""
    /\ ret.kind = "error"
    /\ ret.err.msg = ConfigurationError

\* C22: after NewToolEngine the registry contains exactly one tool, under
\* the name "database_query" with the Database Query Tool's definition, and
\* GetAvailableTools returns exactly that one definition (no database_schema
\* or database_smart_query entry).
C22_OneRegisteredTool ==
    /\ DOMAIN tools = {"database_query"}
    /\ tools["database_query"].Definition =
          ToolDefinition("database_query",
                         "Execute a read-only SQL SELECT query on the database")
    /\ tools["database_query"].Executor = "DatabaseQueryTool"
    /\ op = "GetAvailableTools"
         => /\ Len(ret.definitions) = 1
            /\ ret.definitions[1].Name = "database_query"

\* C22 witness: GetAvailableTools has returned the one definition.
C22_Witness ==
    /\ op = "GetAvailableTools"
    /\ ret.kind = "definitions"
    /\ ret.definitions = <<GetDefinition>>

\* C23: under any sequence of RegisterTool calls the set of registered names
\* only grows; a registration stores the executor with the definition it
\* reports under its name and leaves every other entry unchanged; GetTool
\* returns the entry stored, that is the one most recently registered; and
\* GetTool, ListTools and ExecuteTool never modify the registry.
C23_RegistryAppendOverwrite ==
    [][ /\ DOMAIN tools \subseteq DOMAIN tools'
        /\ op' = "RegisterTool"
             => /\ DOMAIN tools' = DOMAIN tools \cup {call'.name}
                /\ tools'[call'.name].Executor = call'.executor
                /\ tools'[call'.name].Definition =
                      (IF call'.executor = "DatabaseSmartQueryTool"
                       THEN SmartGetDefinition ELSE GetDefinition)
                /\ \A n \in DOMAIN tools \ {call'.name} : tools'[n] = tools[n]
        /\ op' \in {"GetTool", "GetAvailableTools", "ExecuteTool"}
             => tools' = tools
        /\ op' = "GetTool"
             => /\ ret'.exists <=> call'.name \in DOMAIN tools
                /\ ret'.exists => ret'.entry = tools[call'.name]
      ]_vars

\* C23 witness: with two names registered, GetTool of a name registered with
\* the smart query tool returns that executor and its definition.
C23_Witness ==
    /\ op = "GetTool"
    /\ Cardinality(DOMAIN tools) = 2
    /\ call.name = "database_query"
    /\ ret.exists
    /\ ret.entry = ToolRegistryEntry(SmartGetDefinition, "DatabaseSmartQueryTool")

\* C24: on a successful query POST /db/query answers 200 with a body that
\* is the Execute document itself ({query, columns, row_count, data}), not
\* wrapped in a ToolResult; an empty query string is answered 400 without
\* touching the database.
C24_DirectQueryDocument ==
    (op = "QueryHandler" /\ Accepted)
    => /\ call.request.body.Query = <<>>
            => ret.status = 400 /\ Trace = <<>>
       /\ (call.request.body.Query # <<>> /\ FailedStage(call.cursors[1]) = "")
            => /\ ret.status = 200
               /\ ret.body.kind = "document"
               /\ ret.body.result = NoResult
               /\ ret.body.doc.query = call.request.body.Query
               /\ ret.body.doc.columns = call.cursors[1].columns
               /\ ret.body.doc.row_count = Len(call.cursors[1].rows)

\* ProcessMessageHandler got a parsed vendor response
Parsed ==
    /\ op = "ProcessMessageHandler"
    /\ Accepted
    /\ call.request.body.Message # ""
    /\ APIKey # ""
    /\ call.vendor.kind = "ok"

\* the position in the content list of the k-th tool_use entry
ToolUseAt(k) ==
    CHOOSE i \in ToolUses : Cardinality({j \in ToolUses : j <= i}) = k

\* C26: for every LLM response with one or more tool_use entries, at
\* whatever position of the content list, ProcessMessageHandler executes
\* each tool_use entry exactly once in content order and returns their
\* results in that order; only a response with no tool_use entry is
\* answered with its plain text.
C26_EveryToolUseExecuted ==
    Parsed =>
        /\ ToolUses # {}
             => /\ ret.status = 200
                /\ ret.body.message = "Query executed successfully"
                /\ Trace = ProcessMessage(APIKey, call.vendor).trace
                             \o CallsTrace(Len(call.vendor.content))
                /\ Len(ret.body.items) = Cardinality(ToolUses)
                /\ \A k \in 1..Len(ret.body.items) :
                      ret.body.items[k] = Answer(ToolUseAt(k)).body
        /\ (ret.status = 200 /\ ret.body.message # "Query executed successfully")
             => ToolUses = {}

\* entry k of data holds, under every column name, the value of row r
BuiltFrom(k, r) ==
    \A i \in 1..Len(DocColumns) :
        Retained(i) => DocData[k][DocColumns[i]] = Mapped(DocRows[r][i])

\* C27: the order of the entries of data is the order in which the cursor
\* yielded the rows: the k-th entry is built from the k-th row, with no
\* reordering, deduplication or dropping of rows.
C27_CursorOrder ==
    HasDocument =>
        /\ Len(DocData) = Len(DocRows)
        /\ \A k \in 1..Len(DocData) : BuiltFrom(k, k)

\* C27 witness: a document of three rows of which the first and the last
\* are equal and the second differs.
C27_Witness ==
    /\ HasDocument
    /\ DocRows = <<bobRow, annRow, bobRow>>
    /\ Len(DocData) = 3
    /\ DocData[1] = DocData[3]
    /\ DocData[1] # DocData[2]

\* C28: every ToolResult returned by ExecuteTools, and by ExecuteTool
\* through /tools/single, carries in its id field the id of the ToolCall it
\* answers, for successful results, validation errors, query errors and
\* tool-not-found errors alike.
C28_ResultCarriesCallId ==
    /\ BatchReturned
         => \A i \in 1..Len(BatchResults) : BatchResults[i].ID = BatchCallsMade[i].ID
    /\ (op = "SingleToolHandler" /\ ret.status = 200)
         => ret.body.result.ID = call.request.body.ID

\* C29: ProcessMessageHandler writes exactly one well-formed HTTP response
\* for every successfully parsed LLM response, a response whose content list
\* is empty included; it never fails by indexing into an empty content list.
C29_AlwaysOneResponse ==
    Parsed => /\ ret.kind = "response"
              /\ ret.status \in {200, 500}
              /\ ret.body.kind = "MessageResponse"

\* C30: for a validated query whose cursor yields zero rows, Execute returns
\* is_error = false with row_count 0 and data as an empty sequence of row
\* mappings: data is a sequence in every successful result, never null.
C30_DataNeverNull ==
    /\ (ValidatedCall /\ NoStageFailed /\ Len(DocRows) = 0)
         => /\ ~ExecuteResult.IsError
            /\ ResultDocument.row_count = 0
            /\ ResultDocument.data = Slice(<<>>)
    /\ HasDocument => ~ResultDocument.data.isNil

\* C25: the registry's tool map is written only during
\* InitializeToolEngine, which completes before the server starts accepting
\* requests; under any interleaving of concurrently served requests no
\* handler writes the map, so every request observes the same set of
\* registered tools.
C25_RegistryWrittenOnlyAtStartup ==
    [][ /\ tools' # tools
             => /\ ~Done("ListenAndServe")
                /\ main' = main + 1
                /\ Startup[main] = "InitializeToolEngine"
                /\ requests' = requests
        /\ \A r \in 1..MaxRequests :
              requests'[r].pc # "idle" => tools' = NewToolEngine
        /\ \A r, q \in 1..MaxRequests :
              (requests'[r].pc = "looked" /\ requests'[q].pc = "looked")
                => requests'[r].seen = requests'[q].seen
      ]_vars

\* C25 witness: two requests are being served at once and both have read the
\* registry while a third has not yet.
C25_Witness ==
    /\ requests[1].pc = "looked"
    /\ requests[2].pc = "looked"
    /\ requests[3].pc = "handling"
    /\ requests[1].seen = {"database_query"}

====
